---- MODULE Spec2Model ----
(***************************************************************************)
(* Duty roster engine: Employee eligibility (src/src/models.py) and the    *)
(* RosterSolver constraint model (src/src/solver.py).  A date is the tuple *)
(* <<year, month, day>>; an assignment variable is the key                 *)
(* <<employee name, date, shift>> of RosterSolver.variables.               *)
(***************************************************************************)
EXTENDS Integers, Sequences, FiniteSets, TLC

VARIABLES employees, date_range, public_holidays, variables, cons,
          objective, errors, pc, status, values, ret, probe, call, prev

vars == <<employees, date_range, public_holidays, variables, cons,
          objective, errors, pc, status, values, ret, probe, call, prev>>

(* ---------------------------- bounds ---------------------------------- *)
\* longest date range rostered
MaxDays == 2
\* largest number of non-default employee fields in one employee collection
MaxMarks == 2
\* largest starting ytd_points
MaxYtd == 1

\* Python's None; a value that may be None is None or Some(value)
None == <<>>
Some(x) == <<x>>
NOT_RUN == "NOT_RUN"
NO_OBJECTIVE == "NO_OBJECTIVE"

(* ---------------------------- enums ----------------------------------- *)
STANDARD == "Standard"
NO_PM == "No-PM"
WEEKEND_ONLY == "Weekend-Only"
EmployeeType == {STANDARD, NO_PM, WEEKEND_ONLY}

WEEKDAY_AM == "WEEKDAY_AM"
WEEKDAY_PM == "WEEKDAY_PM"
WEEKEND_AM == "WEEKEND_AM"
WEEKEND_PM == "WEEKEND_PM"
PH_AM == "PH_AM"
PH_PM == "PH_PM"
Shift == {WEEKDAY_AM, WEEKDAY_PM, WEEKEND_AM, WEEKEND_PM, PH_AM, PH_PM}

(* ---------------------------- calendar -------------------------------- *)
IsLeap(y) == (y % 4 = 0) /\ ((y % 100 # 0) \/ (y % 400 = 0))

DaysInMonth(y, m) ==
    IF m = 2 THEN (IF IsLeap(y) THEN 29 ELSE 28)
    ELSE IF m \in {4, 6, 9, 11} THEN 30 ELSE 31

DaysBeforeYear(y) ==
    (y - 1) * 365 + ((y - 1) \div 4) - ((y - 1) \div 100) + ((y - 1) \div 400)

RECURSIVE DaysBeforeMonth(_, _)
DaysBeforeMonth(y, m) ==
    IF m = 1 THEN 0 ELSE DaysBeforeMonth(y, m - 1) + DaysInMonth(y, m - 1)

ToOrdinal(d) == DaysBeforeYear(d[1]) + DaysBeforeMonth(d[1], d[2]) + d[3]

\* date.weekday(): Monday = 0 .. Sunday = 6
Weekday(d) == (ToOrdinal(d) + 6) % 7

DayName(d) ==
    <<"Monday", "Tuesday", "Wednesday", "Thursday", "Friday", "Saturday",
      "Sunday">>[Weekday(d) + 1]

\* d1 < d2 on dates
DateLT(d1, d2) ==
    \/ d1[1] < d2[1]
    \/ d1[1] = d2[1] /\ d1[2] < d2[2]
    \/ d1[1] = d2[1] /\ d1[2] = d2[2] /\ d1[3] < d2[3]

\* date.replace(year = y): raises ValueError when the day does not exist
ReplaceYearFails(d, y) == d[3] > DaysInMonth(y, d[2])

(* ---------------------------- Employee -------------------------------- *)
ImmunityEnd(last, years_threshold) ==
    IF ReplaceYearFails(last, last[1] + years_threshold)
    THEN <<last[1] + years_threshold, last[2], 28>>
    ELSE <<last[1] + years_threshold, last[2], last[3]>>

\* faulty variant: the immunity window lasts one year instead of two
is_immune_OneYear(emp, day) ==
    IF emp.last_ph_date = None THEN FALSE
    ELSE DateLT(day, ImmunityEnd(emp.last_ph_date, 1))

is_immune(emp, day) ==
    IF emp.last_ph_date = None THEN FALSE
    ELSE DateLT(day, ImmunityEnd(emp.last_ph_date, 2))

weekend_shifts == {WEEKEND_AM, WEEKEND_PM}
ph_shifts == {PH_AM, PH_PM}
pm_shifts == {WEEKDAY_PM, WEEKEND_PM, PH_PM}

\* faulty variant: the No-PM rule is missing
can_work_NoPmRuleMissing(emp, day, shift, is_public_holiday) ==
    LET is_weekend == Weekday(day) >= 5 IN
    IF day \in emp.blackouts THEN FALSE
    ELSE IF is_public_holiday /\ is_immune(emp, day) THEN FALSE
    ELSE IF is_public_holiday /\ shift \notin ph_shifts THEN FALSE
    ELSE IF ~is_public_holiday /\ is_weekend /\ shift \notin weekend_shifts
         THEN FALSE
    ELSE IF ~is_public_holiday /\ ~is_weekend /\ shift \in weekend_shifts
         THEN FALSE
    ELSE IF emp.role = WEEKEND_ONLY /\ ~is_weekend /\ ~is_public_holiday
         THEN FALSE
    ELSE TRUE

\* faulty variant: the blackout check is missing
can_work_NoBlackout(emp, day, shift, is_public_holiday) ==
    LET is_weekend == Weekday(day) >= 5 IN
    IF is_public_holiday /\ is_immune(emp, day) THEN FALSE
    ELSE IF is_public_holiday /\ shift \notin ph_shifts THEN FALSE
    ELSE IF ~is_public_holiday /\ is_weekend /\ shift \notin weekend_shifts
         THEN FALSE
    ELSE IF ~is_public_holiday /\ ~is_weekend /\ shift \in weekend_shifts
         THEN FALSE
    ELSE IF emp.role = NO_PM /\ shift \in pm_shifts THEN FALSE
    ELSE IF emp.role = WEEKEND_ONLY /\ ~is_weekend /\ ~is_public_holiday
         THEN FALSE
    ELSE TRUE

can_work(emp, day, shift, is_public_holiday) ==
    LET is_weekend == Weekday(day) >= 5 IN
    IF day \in emp.blackouts THEN FALSE
    ELSE IF is_public_holiday /\ is_immune(emp, day) THEN FALSE
    ELSE IF is_public_holiday /\ shift \notin ph_shifts THEN FALSE
    ELSE IF ~is_public_holiday /\ is_weekend /\ shift \notin weekend_shifts
         THEN FALSE
    ELSE IF ~is_public_holiday /\ ~is_weekend /\ shift \in weekend_shifts
         THEN FALSE
    ELSE IF emp.role = NO_PM /\ shift \in pm_shifts THEN FALSE
    ELSE IF emp.role = WEEKEND_ONLY /\ ~is_weekend /\ ~is_public_holiday
         THEN FALSE
    ELSE TRUE

(* ---------------------------- inputs ---------------------------------- *)
Range(seq) == {seq[i] : i \in 1..Len(seq)}

\* the calendar the date picker offers: Fri 27 Feb 2026 .. Sun 1 Mar 2026
Window == << <<2026, 2, 27>>, <<2026, 2, 28>>, <<2026, 3, 1>> >>

\* get_date_list(start, end): the dates start..end of the calendar, [] when
\* start > end; start and end are positions in Window
get_date_list(start, end) ==
    IF start > end THEN <<>> ELSE [i \in 1..(end - start + 1) |-> Window[start + i - 1]]

DateRanges ==
    {get_date_list(p[1], p[2]) :
        p \in {q \in (1..Len(Window)) \X (1..Len(Window)) :
                   q[2] - q[1] + 1 <= MaxDays}}

\* the names of an employee collection: two or three employees
EmployeeNames == { <<"e1", "e2">>, <<"e1", "e2", "e3">> }

\* date of a last public-holiday duty, two years before the window: its
\* second anniversary (29 February 2026) does not exist
LastPhDates == { <<2024, 2, 29>> }

\* a mark sets one field of one employee away from its default; fields the
\* solver never reads (bids and immunity without a holiday) stay at the default
Marks(names, dr, ph) ==
    {<<"blackout", n, d>> : n \in Range(names), d \in Range(dr)}
    \cup {<<"bid", n, d>> : n \in Range(names), d \in ph}
    \cup {<<"role", n, r>> : n \in Range(names), r \in {NO_PM, WEEKEND_ONLY}}
    \cup {<<"last_ph", n, l>> : n \in Range(names),
                               l \in IF ph = {} THEN {} ELSE LastPhDates}
    \cup {<<"ytd", n, v>> : n \in Range(names), v \in 1..MaxYtd}

RECURSIVE MarkSets(_, _)
MarkSets(M, k) ==
    IF k = 0 THEN {{}}
    ELSE LET P == MarkSets(M, k - 1) IN P \cup {S \cup {m} : S \in P, m \in M}

\* a field is set once
ValidMarks(S) ==
    \A a \in S, b \in S :
        (a[1] = b[1] /\ a[2] = b[2] /\ a[1] \in {"role", "last_ph", "ytd"})
            => a = b

\* Employee(name, role, ytd_points = 0, blackouts = set(), ph_bids = set(),
\*          last_ph_date = None)
Employee(n, S) ==
    [name |-> n,
     role |-> IF \E m \in S : m[1] = "role" /\ m[2] = n
              THEN (CHOOSE m \in S : m[1] = "role" /\ m[2] = n)[3]
              ELSE STANDARD,
     ytd_points |-> IF \E m \in S : m[1] = "ytd" /\ m[2] = n
                    THEN (CHOOSE m \in S : m[1] = "ytd" /\ m[2] = n)[3]
                    ELSE 0,
     blackouts |-> {m[3] : m \in {x \in S : x[1] = "blackout" /\ x[2] = n}},
     ph_bids |-> {m[3] : m \in {x \in S : x[1] = "bid" /\ x[2] = n}},
     last_ph_date |-> IF \E m \in S : m[1] = "last_ph" /\ m[2] = n
                      THEN (CHOOSE m \in S : m[1] = "last_ph" /\ m[2] = n)[3]
                      ELSE None]

EmployeeLists(dr, ph) ==
    UNION {{[k \in 1..Len(names) |-> Employee(names[k], S)] :
               S \in {T \in MarkSets(Marks(names, dr, ph), MaxMarks) :
                         ValidMarks(T)}} : names \in EmployeeNames}

(* ---------------------------- RosterSolver ---------------------------- *)
\* RosterSolver.__init__
InitSolver ==
    /\ date_range \in DateRanges
    /\ public_holidays \in SUBSET Range(date_range)
    /\ employees \in EmployeeLists(date_range, public_holidays)
    /\ variables = <<>>
    /\ cons = <<>>
    /\ objective = NO_OBJECTIVE
    /\ errors = <<>>
    /\ status = NOT_RUN
    /\ values = {}
    /\ ret = None

\* RosterSolver(employees, dates, public_holidays).solve(), as app.py calls
\* it: one solve() on a solver that was just constructed
Init ==
    /\ InitSolver
    /\ pc = "create_variables"
    /\ probe = None
    /\ call = 1
    /\ prev = None

get_shifts_for_day(d, ph) ==
    IF d \in ph THEN <<PH_AM, PH_PM>>
    ELSE IF Weekday(d) >= 5 THEN <<WEEKEND_AM, WEEKEND_PM>>
    ELSE <<WEEKDAY_PM>>

\* the (date, shift) pairs in the order the loops of the solver visit them
RECURSIVE SlotsOf(_, _)
SlotsOf(dr, ph) ==
    IF dr = <<>> THEN <<>>
    ELSE LET d == Head(dr)
             sh == get_shifts_for_day(d, ph)
         IN [j \in 1..Len(sh) |-> <<d, sh[j]>>] \o SlotsOf(Tail(dr), ph)

Slots == SlotsOf(date_range, public_holidays)

VarSet == Range(variables)

\* the keys _create_variables inserts for one (date, shift), in employee order
EligibleKeys(d, s) ==
    LET sel == SelectSeq(employees,
                         LAMBDA e : can_work(e, d, s, d \in public_holidays))
    IN [k \in 1..Len(sel) |-> <<sel[k].name, d, s>>]

RECURSIVE NewKeys(_)
NewKeys(slots) ==
    IF slots = <<>> THEN <<>>
    ELSE EligibleKeys(Head(slots)[1], Head(slots)[2]) \o NewKeys(Tail(slots))

\* dict assignment keeps the position of a key that is already present
DictInsert(dict, keys) ==
    dict \o SelectSeq(keys, LAMBDA k : k \notin Range(dict))

create_variables ==
    /\ pc = "create_variables"
    /\ variables' = DictInsert(variables, NewKeys(Slots))
    /\ pc' = "coverage"
    /\ UNCHANGED <<employees, date_range, public_holidays, cons, objective,
                   errors, status, values, ret, probe, call, prev>>

\* a constraint over the variable objects created by the current call
Con(kind, op, vs, const, w) ==
    [kind |-> kind, op |-> op, vars |-> vs, const |-> const, weights |-> w,
     call |-> call]

relevant_switches(d, s) ==
    {k \in VarSet : k[2] = d /\ k[3] = s
                    /\ \E i \in 1..Len(employees) : employees[i].name = k[1]}

ErrImpossible(d, s) == [kind |-> "impossible", date |-> d, shift |-> s]

\* faulty variant: a slot is covered by at most one employee instead of exactly one
RECURSIVE CoverageCons_AtMostOne(_)
CoverageCons_AtMostOne(slots) ==
    IF slots = <<>> THEN <<>>
    ELSE LET d == Head(slots)[1]
             s == Head(slots)[2]
             rs == relevant_switches(d, s)
         IN (IF rs # {} THEN <<Con("coverage", "le1", rs, 0, <<>>)>>
             ELSE <<>>) \o CoverageCons_AtMostOne(Tail(slots))

RECURSIVE CoverageCons(_)
CoverageCons(slots) ==
    IF slots = <<>> THEN <<>>
    ELSE LET d == Head(slots)[1]
             s == Head(slots)[2]
             rs == relevant_switches(d, s)
         IN (IF rs # {} THEN <<Con("coverage", "eq1", rs, 0, <<>>)>>
             ELSE <<>>) \o CoverageCons(Tail(slots))

\* faulty variant: the pass stops at the first slot nobody can fill
RECURSIVE CoverageErrors_FirstOnly(_)
CoverageErrors_FirstOnly(slots) ==
    IF slots = <<>> THEN <<>>
    ELSE LET d == Head(slots)[1]
             s == Head(slots)[2]
         IN IF relevant_switches(d, s) = {} THEN <<ErrImpossible(d, s)>>
            ELSE CoverageErrors_FirstOnly(Tail(slots))

RECURSIVE CoverageErrors(_)
CoverageErrors(slots) ==
    IF slots = <<>> THEN <<>>
    ELSE LET d == Head(slots)[1]
             s == Head(slots)[2]
         IN (IF relevant_switches(d, s) = {} THEN <<ErrImpossible(d, s)>>
             ELSE <<>>) \o CoverageErrors(Tail(slots))

\* what the caller holds of the previous call: <<the returned tuple as it is
\* now, whether its error list is the object self.errors, the returned tuple
\* as it was when that call returned>>
Held(now, shared, then) == <<now, shared, then>>

\* self.errors.append also shows in a returned tuple whose error list is
\* self.errors itself
AppendSeen(held, errs) ==
    IF held # None /\ held[2]
    THEN Held(<<held[1][1], held[1][2], errs>>, held[2], held[3])
    ELSE held

add_coverage_constraints ==
    /\ pc = "coverage"
    /\ cons' = cons \o CoverageCons(Slots)
    /\ errors' = errors \o CoverageErrors(Slots)
    /\ prev' = AppendSeen(prev, errors')
    /\ pc' = "check_errors"
    /\ UNCHANGED <<employees, date_range, public_holidays, variables,
                   objective, status, values, ret, probe, call>>

\* the tuple solve() returns: (roster, summary, errors)
Return(roster, summary, errs) == <<roster, summary, errs>>

\* faulty variant: solve() goes on to build and solve the model despite the errors
check_errors_NoReturn ==
    /\ pc = "check_errors"
    /\ ret' = ret
    /\ pc' = "rest"
    /\ UNCHANGED <<employees, date_range, public_holidays, variables, cons,
                   objective, errors, status, values, probe, call, prev>>

\* solve(): if self.errors: return None, None, self.errors
check_errors ==
    /\ pc = "check_errors"
    /\ IF errors # <<>>
       THEN /\ ret' = Return(None, None, errors)
            /\ pc' = "done"
       ELSE /\ ret' = ret
            /\ pc' = "rest"
    /\ UNCHANGED <<employees, date_range, public_holidays, variables, cons,
                   objective, errors, status, values, probe, call, prev>>

RECURSIVE Flatten(_)
Flatten(ss) == IF ss = <<>> THEN <<>> ELSE Head(ss) \o Flatten(Tail(ss))

\* <<1,1>>, <<1,2>>, .., <<m,n>>: the index pairs of "for a in A: for b in B"
LoopPairs(m, n) ==
    [x \in 1..(m * n) |-> <<((x - 1) \div n) + 1, ((x - 1) % n) + 1>>]

KeysOn(name, d) ==
    {k \in VarSet : k[1] = name /\ k[2] = d
                    /\ k[3] \in Range(get_shifts_for_day(d, public_holidays))}

\* faulty variant: the weekend evening shift is missing from pm_shifts
RestCon_NoWeekendPm(emp, i) ==
    LET today == date_range[i]
        tomorrow == date_range[i + 1]
        pm == {k \in VarSet : k[1] = emp.name /\ k[2] = today
                              /\ k[3] \in {WEEKDAY_PM, PH_PM}}
        tomorrow_switches == KeysOn(emp.name, tomorrow)
    IN IF pm = {} THEN <<>>
       ELSE IF tomorrow_switches = {} THEN <<>>
       ELSE <<Con("rest", "le1",
                  {CHOOSE k \in pm : TRUE} \cup tomorrow_switches, 0, <<>>)>>

\* one iteration of the loops of _add_rest_constraints
RestCon(emp, i) ==
    LET today == date_range[i]
        tomorrow == date_range[i + 1]
        pm == {k \in VarSet : k[1] = emp.name /\ k[2] = today
                              /\ k[3] \in pm_shifts}
        tomorrow_switches == KeysOn(emp.name, tomorrow)
    IN IF pm = {} THEN <<>>
       ELSE IF tomorrow_switches = {} THEN <<>>
       ELSE <<Con("rest", "le1",
                  {CHOOSE k \in pm : TRUE} \cup tomorrow_switches, 0, <<>>)>>

RestCons ==
    IF Len(date_range) < 2 THEN <<>>
    ELSE LET lp == LoopPairs(Len(employees), Len(date_range) - 1)
         IN Flatten([x \in 1..Len(lp) |->
                        RestCon(employees[lp[x][1]], lp[x][2])])

add_rest_constraints ==
    /\ pc = "rest"
    /\ cons' = cons \o RestCons
    /\ pc' = "bidding"
    /\ UNCHANGED <<employees, date_range, public_holidays, variables,
                   objective, errors, status, values, ret, probe, call, prev>>

bidders(d) ==
    {employees[i].name : i \in {j \in 1..Len(employees) :
                                    d \in employees[j].ph_bids}}

valid_bidder_vars(d, s) ==
    {k \in VarSet : k[1] \in bidders(d) /\ k[2] = d /\ k[3] = s}

\* faulty variant: at most one bidder instead of exactly one
BidCon_AtMostOne(d, s) ==
    IF d \notin public_holidays THEN <<>>
    ELSE IF valid_bidder_vars(d, s) = {} THEN <<>>
    ELSE <<Con("bid", "le1", valid_bidder_vars(d, s), 0, <<>>)>>

BidCon(d, s) ==
    IF d \notin public_holidays THEN <<>>
    ELSE IF valid_bidder_vars(d, s) = {} THEN <<>>
    ELSE <<Con("bid", "eq1", valid_bidder_vars(d, s), 0, <<>>)>>

BidCons == Flatten([x \in 1..Len(Slots) |-> BidCon(Slots[x][1], Slots[x][2])])

add_ph_bidding_constraints ==
    /\ pc = "bidding"
    /\ cons' = cons \o BidCons
    /\ pc' = "one_shift"
    /\ UNCHANGED <<employees, date_range, public_holidays, variables,
                   objective, errors, status, values, ret, probe, call, prev>>

\* faulty variant: the constraint is not added
OneShiftCon_Missing(emp, d) == <<>>

OneShiftCon(emp, d) ==
    IF KeysOn(emp.name, d) = {} THEN <<>>
    ELSE <<Con("one_shift", "le1", KeysOn(emp.name, d), 0, <<>>)>>

OneShiftCons ==
    LET lp == LoopPairs(Len(employees), Len(date_range))
    IN Flatten([x \in 1..Len(lp) |->
                   OneShiftCon(employees[lp[x][1]], date_range[lp[x][2]])])

add_one_shift_per_day_constraint ==
    /\ pc = "one_shift"
    /\ cons' = cons \o OneShiftCons
    /\ pc' = "fairness"
    /\ UNCHANGED <<employees, date_range, public_holidays, variables,
                   objective, errors, status, values, ret, probe, call, prev>>

ScaleFactor == 10
WeightRegular == 10
WeightSpecial == 15
PtsUpperBound == 100000

weights(s) ==
    IF s \in {WEEKDAY_PM, WEEKDAY_AM} THEN WeightRegular ELSE WeightSpecial

\* the weight _set_fairness_objective gives a variable
ObjectiveWeight(k) ==
    IF k[2] \in public_holidays THEN WeightSpecial ELSE weights(k[3])

\* max_pts >= total and min_pts <= total for one employee
FairnessCon(emp) ==
    LET mine == {k \in VarSet : k[1] = emp.name}
        w == [k \in mine |-> ObjectiveWeight(k)]
    IN <<Con("max_pts", "ge", mine, emp.ytd_points * ScaleFactor, w),
         Con("min_pts", "le", mine, emp.ytd_points * ScaleFactor, w)>>

FairnessCons == Flatten([x \in 1..Len(employees) |-> FairnessCon(employees[x])])

set_fairness_objective ==
    /\ pc = "fairness"
    /\ cons' = cons \o FairnessCons
    /\ objective' = "max_pts - min_pts"
    /\ pc' = "solver"
    /\ UNCHANGED <<employees, date_range, public_holidays, variables,
                   errors, status, values, ret, probe, call, prev>>

(* ---------------------------- Solving Service ------------------------- *)
\* An assignment is the set of keys whose variable has value 1.
\* The constraints of call g are over the variable objects that call created.
ConsOf(g) == {cons[i] : i \in {j \in 1..Len(cons) : cons[j].call = g}}
BoolCons == {c \in ConsOf(call) : c.op \in {"eq1", "le1"}}
MaxCons == {c \in ConsOf(call) : c.kind = "max_pts"}
MinCons == {c \in ConsOf(call) : c.kind = "min_pts"}

\* no constraint of bc is already violated by the keys set to 1 (T) whatever
\* the undecided keys (U) become
Consistent(T, U, bc) ==
    \A c \in bc :
        /\ Cardinality(c.vars \cap T) <= 1
        /\ c.op = "eq1" => (c.vars \cap (T \cup U)) # {}

\* setting key v to 1 keeps every sum that holds v at most 1
AddOK(v, T, bc) == \A c \in bc : v \in c.vars => (c.vars \cap T) = {}

\* setting key v to 0 leaves every sum == 1 that holds v a key that is 1 or
\* undecided
SkipOK(v, T, R, bc) ==
    \A c \in bc : (c.op = "eq1" /\ v \in c.vars) => (c.vars \cap (T \cup R)) # {}

\* every extension of T by keys among ks[i..] that satisfies the constraints
\* bc, given that T is consistent with them
RECURSIVE Search(_, _, _, _)
Search(ks, i, T, bc) ==
    IF i > Len(ks) THEN {T}
    ELSE LET v == ks[i]
             R == {ks[j] : j \in (i + 1)..Len(ks)}
         IN (IF AddOK(v, T, bc) THEN Search(ks, i + 1, T \cup {v}, bc) ELSE {})
            \cup (IF SkipOK(v, T, R, bc) THEN Search(ks, i + 1, T, bc) ELSE {})

RECURSIVE SumWeights(_, _)
SumWeights(S, w) ==
    IF S = {} THEN 0
    ELSE LET k == CHOOSE x \in S : TRUE IN w[k] + SumWeights(S \ {k}, w)

Total(c, a) == c.const + SumWeights(c.vars \cap a, c.weights)

SetMax(S) == CHOOSE x \in S : \A y \in S : y <= x
SetMin(S) == CHOOSE x \in S : \A y \in S : x <= y

\* least max_pts and greatest min_pts of the domain 0..PtsUpperBound that
\* bound every employee total of assignment a
LeastMaxPts(a, mc) == SetMax({0} \cup {Total(c, a) : c \in mc})
GreatestMinPts(a, mc) == SetMin({PtsUpperBound} \cup {Total(c, a) : c \in mc})

BoundsExistOf(a, g) ==
    /\ LeastMaxPts(a, {c \in ConsOf(g) : c.kind = "max_pts"}) <= PtsUpperBound
    /\ GreatestMinPts(a, {c \in ConsOf(g) : c.kind = "min_pts"}) >= 0

BoundsExist(a) == BoundsExistOf(a, call)

\* every assignment to the variable objects of call g that satisfies the
\* constraints over them
SolutionsOf(g) ==
    LET bc == {c \in ConsOf(g) : c.op \in {"eq1", "le1"}} IN
    IF Consistent({}, VarSet, bc)
    THEN {a \in Search(variables, 1, {}, bc) : BoundsExistOf(a, g)}
    ELSE {}

\* earlier calls whose constraints are still in self.model
StaleCalls == {cons[j].call : j \in 1..Len(cons)} \ {call}

\* every assignment to the current variable objects that satisfies the model;
\* the objects of earlier calls are separate variables of the same model, so
\* their constraints must be satisfiable too
Solutions ==
    IF \E g \in StaleCalls : SolutionsOf(g) = {} THEN {}
    ELSE SolutionsOf(call)

\* max_pts - min_pts at its least for assignment a
ObjectiveValue(a) ==
    IF objective = NO_OBJECTIVE THEN 0
    ELSE LeastMaxPts(a, MaxCons) - GreatestMinPts(a, MinCons)

\* the solutions of least objective value among sols
OptimalAmong(sols) ==
    LET val == [a \in sols |-> ObjectiveValue(a)]
        best == SetMin({val[a] : a \in sols})
    IN {a \in sols : val[a] = best}

\* solver.Solve(self.model) with max_time_in_seconds = 10: the optimum, or a
\* solution not proved optimal when time runs out, or no answer in time
solver_solve ==
    /\ pc = "solver"
    /\ LET sols == Solutions IN
       \/ /\ sols = {}
          /\ status' = "INFEASIBLE"
          /\ values' = {}
       \/ /\ sols # {}
          /\ \E a \in OptimalAmong(sols) :
                /\ status' = "OPTIMAL"
                /\ values' = a
       \/ \E a \in sols :
             /\ status' = "FEASIBLE"
             /\ values' = a
       \/ /\ status' = "UNKNOWN"
          /\ values' = {}
    /\ pc' = "project"
    /\ UNCHANGED <<employees, date_range, public_holidays, variables, cons,
                   objective, errors, ret, probe, call, prev>>

(* ---------------------------- Result Projector ------------------------ *)
RosterRow(k) ==
    [Date |-> k[2], Day |-> DayName(k[2]), Employee |-> k[1], Shift |-> k[3]]

roster_results ==
    LET on == SelectSeq(variables, LAMBDA k : k \in values)
    IN [i \in 1..Len(on) |-> RosterRow(on[i])]

\* n / 10 as the decimal <<integer part, tenths>>
Div10(n) == <<n \div ScaleFactor, n % ScaleFactor>>

SummaryWeights(ks) == [k \in ks |-> weights(k[3])]

SummaryRow(emp) ==
    LET mine == {k \in VarSet : k[1] = emp.name /\ k \in values}
        new_points == SumWeights(mine, SummaryWeights(mine))
    IN [Employee |-> emp.name,
        StartingPoints |-> emp.ytd_points,
        PointsEarned |-> Div10(new_points),
        TotalPoints |-> <<emp.ytd_points + Div10(new_points)[1],
                          Div10(new_points)[2]>>]

summary_results == [i \in 1..Len(employees) |-> SummaryRow(employees[i])]

ErrConflict == [kind |-> "conflict", date |-> None, shift |-> ""]

project_result ==
    /\ pc = "project"
    /\ IF status \in {"OPTIMAL", "FEASIBLE"}
       THEN ret' = Return(Some(roster_results), Some(summary_results), <<>>)
       ELSE ret' = Return(None, None, <<ErrConflict>>)
    /\ pc' = "done"
    /\ UNCHANGED <<employees, date_range, public_holidays, variables, cons,
                   objective, errors, status, values, probe, call, prev>>

Next ==
    \/ create_variables
    \/ add_coverage_constraints
    \/ check_errors
    \/ add_rest_constraints
    \/ add_ph_bidding_constraints
    \/ add_one_shift_per_day_constraint
    \/ set_fairness_objective
    \/ solver_solve
    \/ project_result

Spec == Init /\ [][Next]_vars

(* ---------------------------- solve() called again --------------------- *)
MaxCalls == 2

\* solve() is entered once more on the same RosterSolver: self.variables,
\* self.model and self.errors are what the call before left, the solver and
\* its answer are locals of the new call. The caller keeps the tuple the call
\* before returned; "return None, None, self.errors" handed out the list
\* self.errors itself, the other two returns a new list.
solve_again ==
    /\ pc = "done"
    /\ call < MaxCalls
    /\ call' = call + 1
    /\ prev' = Held(ret, ret[1] = None /\ status = NOT_RUN, ret)
    /\ ret' = None
    /\ status' = NOT_RUN
    /\ values' = {}
    /\ pc' = "create_variables"
    /\ UNCHANGED <<employees, date_range, public_holidays, variables, cons,
                   objective, errors, probe>>

NextReuse ==
    \/ Next
    \/ solve_again

SpecReuse == Init /\ [][NextReuse]_vars

(* ---------------------------- point totals near the cap ---------------- *)
\* year-to-date points: none, or within two points of PtsUpperBound / ScaleFactor
YtdLevels == {0, 9998, 9999, 10000, 10001}

\* employee collections with any year-to-date points of YtdLevels and at most
\* one blackout, bid or role restriction
PointsEmployees(dr, ph) ==
    UNION {{[k \in 1..Len(names) |->
                [Employee(names[k], S) EXCEPT !.ytd_points = y[k]]] :
               S \in MarkSets({m \in Marks(names, dr, ph) :
                                  m[1] \in {"blackout", "bid", "role"}}, 1),
               y \in [1..Len(names) -> YtdLevels]} : names \in EmployeeNames}

InitPoints ==
    /\ date_range \in DateRanges
    /\ public_holidays \in SUBSET Range(date_range)
    /\ employees \in PointsEmployees(date_range, public_holidays)
    /\ variables = <<>>
    /\ cons = <<>>
    /\ objective = NO_OBJECTIVE
    /\ errors = <<>>
    /\ status = NOT_RUN
    /\ values = {}
    /\ ret = None
    /\ pc = "create_variables"
    /\ probe = None
    /\ call = 1
    /\ prev = None

SpecPoints == InitPoints /\ [][Next]_vars

(* ---------------------------- four employees near the cap -------------- *)
\* Thu 26 Feb 2026 .. Sat 28 Feb 2026
CapDates == << <<2026, 2, 26>>, <<2026, 2, 27>>, <<2026, 2, 28>> >>
CapNames == <<"e1", "e2", "e3", "e4">>
CapYtd == {9994, 9995, 9997, 10000}

\* four Standard employees with year-to-date points of CapYtd, at most two of
\* them blacked out on the Friday
CapEmployees ==
    {[k \in 1..Len(CapNames) |->
         [Employee(CapNames[k], {<<"blackout", n, CapDates[2]>> : n \in B})
             EXCEPT !.ytd_points = y[k]]] :
        B \in {X \in SUBSET Range(CapNames) : Cardinality(X) <= 2},
        y \in [1..Len(CapNames) -> CapYtd]}

InitCap ==
    /\ date_range = CapDates
    /\ public_holidays = {}
    /\ employees \in CapEmployees
    /\ variables = <<>>
    /\ cons = <<>>
    /\ objective = NO_OBJECTIVE
    /\ errors = <<>>
    /\ status = NOT_RUN
    /\ values = {}
    /\ ret = None
    /\ pc = "create_variables"
    /\ probe = None
    /\ call = 1
    /\ prev = None

SpecCap == InitCap /\ [][Next]_vars

(* ---------------------------- can_work on its own ---------------------- *)
\* one employee record, with any blackouts of the calendar
ProbeEmployees ==
    {Employee("e1", S) :
        S \in {T \in MarkSets({m \in Marks(<<"e1">>, Window, Range(Window)) :
                                   m[1] # "bid"}, MaxMarks) :
                  ValidMarks(T)}}

InitCanWork ==
    /\ date_range = Window
    /\ public_holidays = {}
    /\ employees \in {<<e>> : e \in ProbeEmployees}
    /\ variables = <<>>
    /\ cons = <<>>
    /\ objective = NO_OBJECTIVE
    /\ errors = <<>>
    /\ status = NOT_RUN
    /\ values = {}
    /\ ret = None
    /\ pc = "can_work"
    /\ probe = None
    /\ call = 1
    /\ prev = None

\* emp.can_work(day, shift, is_public_holiday) for any arguments
call_can_work ==
    /\ pc = "can_work"
    /\ \E day \in Range(Window), shift \in Shift, is_ph \in BOOLEAN :
          probe' = Some([day |-> day, shift |-> shift, is_ph |-> is_ph,
                         result |-> can_work(employees[1], day, shift, is_ph)])
    /\ UNCHANGED <<employees, date_range, public_holidays, variables, cons,
                   objective, errors, pc, status, values, ret, call, prev>>

SpecCanWork == InitCanWork /\ [][call_can_work]_vars

(* ---------------------------- properties ------------------------------ *)
Done == pc = "done"
RosterReturned == pc = "done" /\ ret[1] # None
\* the rows of the returned roster
Rows == ret[1][1]

RowsAt(d, s) == {i \in 1..Len(Rows) : Rows[i].Date = d /\ Rows[i].Shift = s}
RowsOf(name, d) == {i \in 1..Len(Rows) : Rows[i].Employee = name /\ Rows[i].Date = d}

Emps == 1..Len(employees)
Days == 1..Len(date_range)

\* the employees the eligibility rules allow on a required slot
Eligible(d, s) ==
    {i \in Emps : can_work(employees[i], d, s, d \in public_holidays)}

RequiredSlots == Range(Slots)
HolidaySlots == {sl \in RequiredSlots : sl[1] \in public_holidays}
Bidders(d) == {i \in Emps : d \in employees[i].ph_bids}

\* C1 as stated: in a returned roster every holiday slot whose date has a
\* bidder is held by a bidder, whatever the bidders' eligibility.
C1_BidHonoredWheneverBid ==
    RosterReturned =>
        \A sl \in HolidaySlots :
            Bidders(sl[1]) # {} =>
                \E i \in RowsAt(sl[1], sl[2]) :
                    \E b \in Bidders(sl[1]) : Rows[i].Employee = employees[b].name

\* C1 amended: in a returned roster every holiday slot for which at least one
\* bidder is eligible is held by a bidder.
C1_BidHonoredWhenBidderEligible ==
    RosterReturned =>
        \A sl \in HolidaySlots :
            (Bidders(sl[1]) \cap Eligible(sl[1], sl[2])) # {} =>
                /\ RowsAt(sl[1], sl[2]) # {}
                /\ \A i \in RowsAt(sl[1], sl[2]) :
                      \E b \in Bidders(sl[1]) : Rows[i].Employee = employees[b].name

\* a roster was returned for a holiday slot that an eligible bidder and an
\* eligible non-bidder compete for
C1_Witness ==
    /\ RosterReturned
    /\ \E sl \in HolidaySlots :
          /\ (Bidders(sl[1]) \cap Eligible(sl[1], sl[2])) # {}
          /\ (Eligible(sl[1], sl[2]) \ Bidders(sl[1])) # {}

\* the single-bidder scenario of C2: one holiday date, one bidder for it, who
\* is neither blacked out nor immune, and every slot has an eligible employee
SingleBidder(b, d) ==
    /\ public_holidays = {d}
    /\ d \in Range(date_range)
    /\ Bidders(d) = {b}
    /\ d \notin employees[b].blackouts
    /\ ~is_immune(employees[b], d)
    /\ \A sl \in RequiredSlots : (Eligible(sl[1], sl[2]) \ {b}) # {}

\* C2 as stated: in the single-bidder scenario a solve that ends within its
\* time budget returns a roster, and an optimal roster gives the bidder a shift
\* on the holiday.
C2_SingleBidderServed ==
    \A b \in Emps : \A d \in public_holidays :
        (Done /\ SingleBidder(b, d) /\ status # "UNKNOWN") =>
            /\ ret[1] # None
            /\ status = "OPTIMAL" => RowsOf(employees[b].name, d) # {}

\* C3: a returned roster has exactly one row for every required (date, shift)
\* and no row for any other pair.
C3_CoverageComplete ==
    RosterReturned =>
        /\ \A sl \in RequiredSlots : Cardinality(RowsAt(sl[1], sl[2])) = 1
        /\ \A i \in 1..Len(Rows) : <<Rows[i].Date, Rows[i].Shift>> \in RequiredSlots

\* a roster of at least three rows was returned
C3_Witness == RosterReturned /\ Len(Rows) >= 3

\* C4: in a returned roster an employee with an evening shift on a day has no
\* row on the next day of the range.
C4_RestInvariant ==
    RosterReturned =>
        \A e \in Emps : \A i \in Days :
            (i < Len(date_range)
             /\ \E r \in RowsOf(employees[e].name, date_range[i]) :
                   Rows[r].Shift \in {WEEKDAY_PM, WEEKEND_PM, PH_PM})
                => RowsOf(employees[e].name, date_range[i + 1]) = {}

\* a roster was returned in which somebody works an evening and could have
\* worked a shift on the next day
C4_Witness ==
    /\ RosterReturned
    /\ \E e \in Emps : \E i \in Days :
          /\ i < Len(date_range)
          /\ \E r \in RowsOf(employees[e].name, date_range[i]) :
                Rows[r].Shift \in {WEEKDAY_PM, WEEKEND_PM, PH_PM}
          /\ \E s \in Shift : e \in Eligible(date_range[i + 1], s)
                              /\ <<date_range[i + 1], s>> \in RequiredSlots

\* C5: a returned roster has at most one row per employee and date.
C5_NoDoubleBooking ==
    RosterReturned =>
        \A e \in Emps : \A i \in Days :
            Cardinality(RowsOf(employees[e].name, date_range[i])) <= 1

\* a roster was returned in which somebody works one of the two shifts of a
\* day and is eligible for both
C5_Witness ==
    /\ RosterReturned
    /\ \E e \in Emps : \E i \in Days :
          /\ RowsOf(employees[e].name, date_range[i]) # {}
          /\ Cardinality({sl \in RequiredSlots :
                 sl[1] = date_range[i] /\ e \in Eligible(sl[1], sl[2])}) = 2

\* the second anniversary of a date, 29 February clamped to 28 February
SecondAnniversary(l) ==
    IF l[2] = 2 /\ l[3] = 29 THEN <<l[1] + 2, 2, 28>> ELSE <<l[1] + 2, l[2], l[3]>>

ImmuneOn(e, d) ==
    /\ employees[e].last_ph_date # None
    /\ DateLT(d, SecondAnniversary(employees[e].last_ph_date))

\* C6: a returned roster has no row for an employee on a public holiday on
\* which the employee is immune, bid or no bid.
C6_ImmunityEnforced ==
    RosterReturned =>
        \A e \in Emps : \A d \in public_holidays :
            ImmuneOn(e, d) => RowsOf(employees[e].name, d) = {}

\* a roster was returned for a holiday on which an immune employee had bid
C6_Witness ==
    /\ RosterReturned
    /\ \E e \in Emps : \E d \in public_holidays :
          ImmuneOn(e, d) /\ d \in employees[e].ph_bids /\ d \in Range(date_range)

ShiftClass(s) ==
    IF s \in {PH_AM, PH_PM} THEN "holiday"
    ELSE IF s \in {WEEKEND_AM, WEEKEND_PM} THEN "weekend" ELSE "weekday"

DateClass(d, is_ph) ==
    IF is_ph THEN "holiday" ELSE IF Weekday(d) >= 5 THEN "weekend" ELSE "weekday"

\* C7: can_work returns True only when the class of the shift is the class of
\* the date.
C7_ClassMatch ==
    (probe # None /\ probe[1].result) =>
        ShiftClass(probe[1].shift) = DateClass(probe[1].day, probe[1].is_ph)

\* the slots nobody is eligible for, in the order of the date range
UnfillableSlots == SelectSeq(Slots, LAMBDA sl : Eligible(sl[1], sl[2]) = {})

\* C8: when some required slot has no eligible employee, solve() returns no
\* roster, no summary and one error per such slot in date-range order, and
\* neither the later constraint steps nor the solving service have run.
C8_StructuralInfeasibility ==
    (Done /\ UnfillableSlots # <<>>) =>
        /\ ret[1] = None
        /\ ret[2] = None
        /\ ret[3] = [i \in 1..Len(UnfillableSlots) |->
                        ErrImpossible(UnfillableSlots[i][1], UnfillableSlots[i][2])]
        /\ \A i \in 1..Len(cons) : cons[i].kind = "coverage"
        /\ objective = NO_OBJECTIVE
        /\ status = NOT_RUN

\* solve() returned errors for unfillable slots on two different dates
C8_Witness ==
    /\ Done
    /\ Len(UnfillableSlots) >= 2
    /\ UnfillableSlots[1][1] # UnfillableSlots[2][1]
    /\ \E sl \in RequiredSlots : Eligible(sl[1], sl[2]) # {}

\* the blackout scenario of C9: every employee is blacked out on date b of the
\* range and every slot of another date has an eligible employee
AllBlackedOut(b) ==
    /\ b \in Range(date_range)
    /\ \A e \in Emps : b \in employees[e].blackouts
    /\ \A sl \in RequiredSlots : sl[1] # b => Eligible(sl[1], sl[2]) # {}

\* C9 as stated: in the blackout scenario solve() returns no roster and exactly
\* one error, whatever kind of day the date is.
C9_ExactlyOneError ==
    \A i \in Days :
        (Done /\ AllBlackedOut(date_range[i])) =>
            /\ ret[1] = None
            /\ Len(ret[3]) = 1
            /\ ret[3][1].kind = "impossible"
            /\ ret[3][1].date = date_range[i]

\* C9 amended: in the blackout scenario solve() returns no roster and exactly
\* one error per shift required on the date: one on a weekday that is no
\* holiday, two (AM and PM) on a weekend day or a public holiday.
C9_OneErrorPerShift ==
    \A i \in Days :
        (Done /\ AllBlackedOut(date_range[i])) =>
            /\ ret[1] = None
            /\ Len(ret[3]) =
                  (IF DateClass(date_range[i], date_range[i] \in public_holidays)
                        = "weekday" THEN 1 ELSE 2)
            /\ \A j \in 1..Len(ret[3]) :
                  /\ ret[3][j].kind = "impossible"
                  /\ ret[3][j].date = date_range[i]
            /\ {ret[3][j].shift : j \in 1..Len(ret[3])} =
                  {sl[2] : sl \in {x \in RequiredSlots : x[1] = date_range[i]}}

\* solve() returned for a range of two days on whose public holiday every
\* employee is blacked out
C9_Witness ==
    /\ Done
    /\ Len(date_range) = 2
    /\ \E i \in Days : /\ AllBlackedOut(date_range[i])
                       /\ date_range[i] \in public_holidays

AllSlotsFilledOnce ==
    \A sl \in RequiredSlots : Cardinality(RowsAt(sl[1], sl[2])) = 1

\* C10: solve() returns either a complete roster with a summary and no errors,
\* exactly when the solving service answered OPTIMAL or FEASIBLE, or no roster,
\* no summary and some errors; a model the solving service could not solve
\* although every slot has an eligible employee yields the one generic message.
C10_AllOrNothing ==
    Done =>
        /\ \/ /\ ret[1] # None /\ ret[2] # None /\ ret[3] = <<>>
              /\ AllSlotsFilledOnce
           \/ /\ ret[1] = None /\ ret[2] = None /\ ret[3] # <<>>
        /\ ret[1] # None <=> status \in {"OPTIMAL", "FEASIBLE"}
        /\ (UnfillableSlots = <<>> /\ status \in {"INFEASIBLE", "UNKNOWN"})
              => ret[3] = <<ErrConflict>>

\* solve() returned after the solving service found the model infeasible
\* although every slot has an eligible employee
C10_Witness ==
    /\ Done
    /\ status = "INFEASIBLE"
    /\ UnfillableSlots = <<>>
    /\ RequiredSlots # {}

\* the role of the employee a roster row names
RoleOf(name) == (CHOOSE i \in Emps : employees[i].name = name)
RowRole(i) == employees[RoleOf(Rows[i].Employee)].role

\* C11: in a returned roster no No-PM employee holds an evening shift and no
\* Weekend-Only employee holds a shift on a Monday-Friday that is no public
\* holiday; a Standard employee has a variable for every required slot of a
\* date on which they are neither blacked out nor immune.
C11_RoleRestrictions ==
    RosterReturned =>
        /\ \A i \in 1..Len(Rows) :
              /\ RowRole(i) = NO_PM =>
                    Rows[i].Shift \notin {WEEKDAY_PM, WEEKEND_PM, PH_PM}
              /\ RowRole(i) = WEEKEND_ONLY =>
                    (Weekday(Rows[i].Date) >= 5 \/ Rows[i].Date \in public_holidays)
        /\ \A e \in Emps : \A sl \in RequiredSlots :
              (/\ employees[e].role = STANDARD
               /\ sl[1] \notin employees[e].blackouts
               /\ ~(sl[1] \in public_holidays /\ ImmuneOn(e, sl[1])))
                  => <<employees[e].name, sl[1], sl[2]>> \in VarSet

\* a roster was returned in which a No-PM and a Weekend-Only employee hold
\* weekend shifts and a Standard employee the weekday evening
C11_Witness ==
    /\ RosterReturned
    /\ \E i \in 1..Len(Rows) : RowRole(i) = NO_PM
    /\ \E i \in 1..Len(Rows) : RowRole(i) = WEEKEND_ONLY
    /\ \E i \in 1..Len(Rows) : RowRole(i) = STANDARD /\ Rows[i].Shift = WEEKDAY_PM


\* the first call's tuple as the caller holds it, and as it was returned
FirstHeld == prev[1]
FirstReturned == prev[3]

\* C13: a second solve() on the same RosterSolver with the same input returns
\* what the first returned: on failure the same error list, on success a roster
\* that fills every required slot once, books nobody twice a day and nobody on
\* the day after an evening shift; a structural failure stays a failure, a
\* roster is never followed by a structural failure, and the second call
\* leaves what the first returned as it was.
C13_SolveIndependent ==
    (Done /\ call > 1) =>
        /\ (FirstReturned[1] = None /\ ret[1] = None) => ret[3] = FirstReturned[3]
        /\ FirstHeld = FirstReturned
        /\ (FirstReturned[1] = None /\ FirstReturned[3] # <<ErrConflict>>)
              => ret[1] = None
        /\ FirstReturned[1] # None => ret[3] \in {<<>>, <<ErrConflict>>}
        /\ ret[1] # None =>
              /\ AllSlotsFilledOnce
              /\ \A e \in Emps : \A i \in Days :
                    /\ Cardinality(RowsOf(employees[e].name, date_range[i])) <= 1
                    /\ (i < Len(date_range)
                        /\ \E r \in RowsOf(employees[e].name, date_range[i]) :
                              Rows[r].Shift \in pm_shifts)
                          => RowsOf(employees[e].name, date_range[i + 1]) = {}

\* the assignments that satisfy the coverage, one-shift-per-day, rest and
\* bidding constraints
LegalAssignments ==
    LET bc == BoolCons IN
    IF Consistent({}, VarSet, bc) THEN Search(variables, 1, {}, bc) ELSE {}

RECURSIVE SumOver(_, _)
SumOver(S, f) ==
    IF S = {} THEN 0
    ELSE LET k == CHOOSE x \in S : TRUE IN f[k] + SumOver(S \ {k}, f)

\* weight 10 for a weekday shift, 15 for a weekend or holiday shift
ShiftWeight(s) == IF s \in {WEEKDAY_AM, WEEKDAY_PM} THEN 10 ELSE 15

\* ytd_points * 10 + the weights of the shifts assignment a gives employee e
PointsOf(e, a) ==
    LET mine == {k \in a : k[1] = employees[e].name}
    IN employees[e].ytd_points * 10 + SumOver(mine, [k \in mine |-> ShiftWeight(k[3])])

\* largest minus smallest employee value under assignment a
Spread(a) ==
    SetMax({PointsOf(e, a) : e \in Emps}) - SetMin({PointsOf(e, a) : e \in Emps})

\* the assignment a returned roster shows
RosterKeys == {<<Rows[i].Employee, Rows[i].Date, Rows[i].Shift>> : i \in 1..Len(Rows)}
SummaryRows == ret[2][1]

\* the weights of the shifts the returned roster gives employee e
EarnedOf(e) == PointsOf(e, RosterKeys) - employees[e].ytd_points * 10

\* C12: when the solving service reports OPTIMAL, no assignment that satisfies
\* the coverage, one-shift-per-day, rest and bidding constraints has a smaller
\* spread of ytd_points*10 + earned weights than the returned roster, and the
\* summary shows for each employee Points Earned = earned weights / 10 and
\* Total Points = ytd_points + Points Earned.
C12_MinMaxFairness ==
    (RosterReturned /\ status = "OPTIMAL") =>
        /\ \A a \in LegalAssignments : Spread(RosterKeys) <= Spread(a)
        /\ \A e \in Emps :
              /\ SummaryRows[e].Employee = employees[e].name
              /\ SummaryRows[e].PointsEarned =
                    <<EarnedOf(e) \div 10, EarnedOf(e) % 10>>
              /\ SummaryRows[e].TotalPoints =
                    <<employees[e].ytd_points + (EarnedOf(e) \div 10),
                      EarnedOf(e) % 10>>

\* C14: when some assignment satisfies the coverage, one-shift-per-day, rest
\* and bidding constraints, the solving service does not find the model with
\* the max_pts and min_pts constraints infeasible.
C14_BoundsKeepLegalRoster ==
    (Done /\ status # NOT_RUN /\ LegalAssignments # {}) => status # "INFEASIBLE"

====
